---- MODULE Spec2Model ----
(***************************************************************************)
(* Book Finder (src/src/App.jsx): the search / pagination state machine,   *)
(* the save-set with its localStorage slot, and the sort transform.        *)
(*                                                                         *)
(* Text is a sequence of tokens; a token is either a run of whitespace     *)
(* (" ") or a word.  JavaScript values that the code only ever tests for   *)
(* truthiness are written with their falsy value when absent: "" for an    *)
(* absent doc.key / doc.cover_edition_key, 0 for an absent                 *)
(* first_publish_year / cover_i, << >> for an absent author_name.          *)
(***************************************************************************)
EXTENDS Integers, Sequences, FiniteSets, TLC

VARIABLES query, author, sort, page, loading, error, docs, numFound,
          saved, storage, inflight, timer, sortedDocs, crashed,
          lastWriteOk, lastOp, docsPage

vars == <<query, author, sort, page, loading, error, docs, numFound,
          saved, storage, inflight, timer, sortedDocs, crashed,
          lastWriteOk, lastOp, docsPage>>

searchVars == <<query, author, page, loading, error, docs, numFound,
                inflight, timer, docsPage>>
saveVars == <<saved, storage, crashed, lastWriteOk>>

-----------------------------------------------------------------------------
(* Program constants and bounds *)

LIMIT == 20

\* the API reports result counts of up to MaxPages pages
MaxPages == 3
\* a response carries at most MaxDocs documents
MaxDocs == 3

Undefined == "<undefined>"
Null == "<null>"
ErrorMessage == "Something went wrong. There was a network or API error."

-----------------------------------------------------------------------------
(* Text *)

IsSpace(tok) == tok = " "

RECURSIVE TrimStart(_)
TrimStart(s) ==
    IF s = << >> THEN << >>
    ELSE IF IsSpace(Head(s)) THEN TrimStart(Tail(s)) ELSE s

RECURSIVE TrimEnd(_)
TrimEnd(s) ==
    IF s = << >> THEN << >>
    ELSE IF IsSpace(s[Len(s)]) THEN TrimEnd(SubSeq(s, 1, Len(s) - 1)) ELSE s

\* String.prototype.trim
trim(s) == TrimEnd(TrimStart(s))

HarryPotter == <<"Harry", " ", "Potter">>

QuickExamples ==
    { HarryPotter,
      <<"Atomic", " ", "Habits">>,
      <<"Pride", " ", "and", " ", "Prejudice">>,
      <<"Wings", " ", "of", " ", "Fire">> }

\* what the user types into the title and author inputs
TitleInputs == { << >>, <<" ">>, <<" ", "Atomic", " ", "Habits", " ">> }
AuthorInputs == { << >>, <<" ">>, <<"Herbert", " ">> }

-----------------------------------------------------------------------------
(* Documents of the search API *)

Doc(k, cek, t, y, a, c) ==
    [key |-> k, cover_edition_key |-> cek, title |-> t,
     first_publish_year |-> y, author_name |-> a, cover_i |-> c]

D1 == Doc("/works/OL1W", "", "Dune", 1965, <<"Frank Herbert">>, 11)
D2 == Doc("", "OL7M", "Emma", 1815, <<"Jane Austen", "Anon">>, 0)
D3 == Doc("", "", "Dune", 1965, <<"F. Herbert">>, 0)
D4 == Doc("", "", "Dune", 1965, << >>, 12)
D5 == Doc("", "", Undefined, 0, <<"">>, 0)

DocUniverse == {D1, D2, D3, D4, D5}

\* the bodies a search response can carry: no match, one full page, MaxPages
\* pages of matches, and a page past the last match
LastCount == LIMIT * (MaxPages - 1) + 5

ApiResponses ==
    { [docs |-> << >>, numFound |-> 0],
      [docs |-> <<D1>>, numFound |-> LIMIT],
      [docs |-> <<D2, D1>>, numFound |-> LastCount],
      [docs |-> << >>, numFound |-> LastCount] }

-----------------------------------------------------------------------------
(* Paginator *)

Max(a, b) == IF a >= b THEN a ELSE b
Min(a, b) == IF a <= b THEN a ELSE b

\* Math.ceil(n / d) for n >= 0, d > 0
Ceil(n, d) == (n + d - 1) \div d

totalPages == Max(1, Ceil(numFound, LIMIT))

-----------------------------------------------------------------------------
(* Sort transform *)

\* String.prototype.localeCompare on the titles of DocUniverse, as the sign
\* of the difference of their collation ranks
CollationRank(t) ==
    CASE t = "" -> 0
      [] t = "Dune" -> 1
      [] t = "Emma" -> 2
      [] OTHER -> 3

localeCompare(a, b) == CollationRank(a) - CollationRank(b)

\* a.title || ""
TitleOrEmpty(d) == IF d.title = Undefined \/ d.title = "" THEN "" ELSE d.title

compare(s, a, b) ==
    CASE s = "year_desc" -> b.first_publish_year - a.first_publish_year
      [] s = "year_asc" -> a.first_publish_year - b.first_publish_year
      [] s = "title_asc" -> localeCompare(TitleOrEmpty(a), TitleOrEmpty(b))
      [] OTHER -> 0

\* InsertSorted putting x in front of the elements it compares equal to
RECURSIVE InsertSortedUnstable(_, _, _)
InsertSortedUnstable(s, x, arr) ==
    IF arr = << >> THEN <<x>>
    ELSE IF compare(s, Head(arr), x) < 0
         THEN <<Head(arr)>> \o InsertSortedUnstable(s, x, Tail(arr))
         ELSE <<x>> \o arr

\* insert x behind every element that does not compare greater than x
RECURSIVE InsertSorted(_, _, _)
InsertSorted(s, x, arr) ==
    IF arr = << >> THEN <<x>>
    ELSE IF compare(s, Head(arr), x) <= 0
         THEN <<Head(arr)>> \o InsertSorted(s, x, Tail(arr))
         ELSE <<x>> \o arr

\* Array.prototype.sort (stable)
RECURSIVE ArraySort(_, _)
ArraySort(s, arr) ==
    IF arr = << >> THEN << >>
    ELSE InsertSorted(s, arr[Len(arr)],
                      ArraySort(s, SubSeq(arr, 1, Len(arr) - 1)))

SortOrders == {"relevance", "year_desc", "year_asc", "title_asc"}

\* the sortedDocs memo: arr is the value rendered, docs the array held in
\* state once the memo has run
sortedDocsMemo(d, s) ==
    [docs |-> d,
     arr |-> IF s \in {"year_desc", "year_asc", "title_asc"}
             THEN ArraySort(s, d) ELSE d]

-----------------------------------------------------------------------------
(* Save-set and its localStorage slot *)

(***************************************************************************)
(* A JavaScript value held in saved is [t, map]: an object ("obj") or an   *)
(* array ("arr") with its own enumerable properties in map, a number       *)
(* ("num") or null ("null") with an empty map.  A saved entry is a record  *)
(* of its properties; year 0 stands for null.  The text in the storage     *)
(* slot is [t, v]: no item ("missing"), a getItem that throws ("throws"),  *)
(* the empty text ("empty"), text that is not JSON ("garbage"), or the     *)
(* JSON text of v ("json").                                                *)
(***************************************************************************)

EmptyMap == [k \in {} |-> Null]
EmptyObject == [t |-> "obj", map |-> EmptyMap]

\* `${doc.title}` and `${doc.first_publish_year || ""}`
TemplateTitle(t) == IF t = Undefined THEN "undefined" ELSE t
TemplateYear(y) == IF y # 0 THEN ToString(y) ELSE ""

\* toBookKey printing an absent year as it stands
toBookKeyRawYear(doc) ==
    IF doc.key # "" THEN doc.key
    ELSE IF doc.cover_edition_key # "" THEN doc.cover_edition_key
    ELSE TemplateTitle(doc.title) \o "-"
            \o (IF doc.first_publish_year # 0
                THEN ToString(doc.first_publish_year) ELSE "undefined")

toBookKey(doc) ==
    IF doc.key # "" THEN doc.key
    ELSE IF doc.cover_edition_key # "" THEN doc.cover_edition_key
    ELSE TemplateTitle(doc.title) \o "-" \o TemplateYear(doc.first_publish_year)

buildCoverUrl(doc, size) ==
    IF doc.cover_i # 0
    THEN "https://covers.openlibrary.org/b/id/" \o ToString(doc.cover_i)
            \o "-" \o size \o ".jpg"
    ELSE Null

\* the entry toggleSave stores for doc under the key k
SavedEntry(k, doc) ==
    [key |-> k,
     title |-> doc.title,
     author |-> IF doc.author_name # << >> /\ doc.author_name[1] # ""
                THEN doc.author_name[1] ELSE "Unknown",
     year |-> doc.first_publish_year,
     cover |-> buildCoverUrl(doc, "M"),
     work |-> IF doc.key # "" THEN doc.key ELSE Null]

\* { ...prev }
Spread(prev) ==
    [t |-> "obj",
     map |-> IF prev.t \in {"obj", "arr"} THEN prev.map ELSE EmptyMap]

\* delete next[k]
Delete(m, k) == [x \in (DOMAIN m) \ {k} |-> m[x]]

\* toggleSave storing the entry whether or not the key is already saved
toggleSaveUpdaterAlwaysAdds(prev, doc) ==
    LET k == toBookKey(doc)
        next == Spread(prev)
    IN [next EXCEPT !.map =
           [x \in (DOMAIN next.map) \cup {k} |->
               IF x = k THEN SavedEntry(k, doc) ELSE next.map[x]]]

\* the updater toggleSave passes to setSaved
toggleSaveUpdater(prev, doc) ==
    LET k == toBookKey(doc)
        next == Spread(prev)
    IN IF k \in DOMAIN next.map
       THEN [next EXCEPT !.map = Delete(next.map, k)]
       ELSE [next EXCEPT !.map =
                [x \in (DOMAIN next.map) \cup {k} |->
                    IF x = k THEN SavedEntry(k, doc) ELSE next.map[x]]]

\* the updater of the sidebar's Remove button for the listed entry b
removeUpdater(prev, b) ==
    LET n == Spread(prev)
    IN [n EXCEPT !.map = Delete(n.map, b.key)]

\* Object.values(saved), as a set; it throws on null
savedList == { saved.map[k] : k \in DOMAIN saved.map }
ObjectValuesThrows(v) == v.t = "null"

\* a property that JSON.stringify leaves out: its value is undefined
IsUndefined(e, f) == f = "title" /\ e[f] = Undefined

StringifyEntry(e) == [f \in { g \in DOMAIN e : ~IsUndefined(e, g) } |-> e[f]]

\* JSON.stringify(value) as the text of the slot
JSONstringify(v) ==
    [t |-> "json",
     v |-> [v EXCEPT !.map = [k \in DOMAIN v.map |-> StringifyEntry(v.map[k])]]]

\* the initializer of useLocalStorage:
\* raw ? JSON.parse(raw) : initial, and initial when anything throws
useLocalStorageInit(slot, initial) ==
    IF slot.t = "json" THEN slot.v ELSE initial

\* the effect of useLocalStorage not running when the value changes
setItemNotRun(slot, value, ok) == slot

\* localStorage.setItem in the effect of useLocalStorage; ok tells whether
\* the write went through
setItem(slot, value, ok) ==
    IF ok /\ slot.t # "throws" THEN JSONstringify(value) ELSE slot

\* App mounting over the slot: the state read, whether rendering threw, and
\* the slot after the effect has run
Mount(slot, ok) ==
    LET value == useLocalStorageInit(slot, EmptyObject)
        threw == ObjectValuesThrows(value)
    IN [saved |-> value,
        crashed |-> threw,
        storage |-> IF threw THEN slot ELSE setItem(slot, value, ok),
        lastWriteOk |-> ~threw /\ ok /\ slot.t # "throws"]

-----------------------------------------------------------------------------
(* Search execution *)

NoOp == [op |-> "none"]

Snapshot ==
    [loading |-> loading, error |-> error, docs |-> docs,
     numFound |-> numFound, page |-> page, inflight |-> Len(inflight)]

\* the query parameters of the URL built by searchBooks
Url(q, pageToUse) ==
    [title |-> q,
     hasAuthor |-> trim(author) # << >>,
     author |-> trim(author),
     page |-> pageToUse,
     limit |-> LIMIT]

\* docsPage is history: the page asked for by the request whose response
\* put the current docs in place, 0 while no response has
\* a pending fetch: the page it asked for, and as history the results held
\* when it was issued and whether a fetch issued later has already resolved
Pending(pageToUse) ==
    [page |-> pageToUse,
     seen |-> [docs |-> docs, numFound |-> numFound],
     overtaken |-> FALSE]

\* searchBooks testing the title as typed instead of the trimmed title
searchBooksUntrimmed(pageOverride) ==
    LET q == query
        pageToUse == IF pageOverride # 0 THEN pageOverride ELSE page
    IN IF q = << >>
       THEN [loading |-> loading, error |-> error, inflight |-> inflight,
             fetched |-> << >>]
       ELSE [loading |-> TRUE, error |-> "",
             inflight |-> Append(inflight, Pending(pageToUse)),
             fetched |-> <<Url(q, pageToUse)>>]

\* searchBooks up to the await of fetch; pageOverride = 0 stands for none.
\* The result is the state it leaves and the URLs it handed to fetch.
searchBooks(pageOverride) ==
    LET q == trim(query)
        pageToUse == IF pageOverride # 0 THEN pageOverride ELSE page
    IN IF q = << >>
       THEN [loading |-> loading, error |-> error, inflight |-> inflight,
             fetched |-> << >>]
       ELSE [loading |-> TRUE, error |-> "",
             inflight |-> Append(inflight, Pending(pageToUse)),
             fetched |-> <<Url(q, pageToUse)>>]

onSubmit ==
    LET s == searchBooks(1)
    IN /\ page' = 1
       /\ loading' = s.loading
       /\ error' = s.error
       /\ inflight' = s.inflight
       /\ lastOp' = [op |-> "onSubmit", pre |-> Snapshot,
                     fetched |-> s.fetched]
       /\ UNCHANGED <<query, author, docs, numFound, sort, sortedDocs,
                      docsPage>>
       /\ UNCHANGED saveVars

\* the submit button, or Enter in a field: both need the button enabled
SubmitForm ==
    /\ ~(trim(query) = << >> \/ loading)
    /\ onSubmit
    /\ UNCHANGED timer

\* the callback of the first-load timer dispatches a submit event on the form
FirstLoadTimer ==
    /\ timer
    /\ timer' = FALSE
    /\ onSubmit

gotoPage(p) ==
    LET clamped == Min(Max(1, p), totalPages)
        s == searchBooks(clamped)
    IN /\ page' = clamped
       /\ loading' = s.loading
       /\ error' = s.error
       /\ inflight' = s.inflight
       /\ lastOp' = [op |-> "gotoPage", p |-> p, fetched |-> s.fetched]
       /\ UNCHANGED <<query, author, docs, numFound, timer, sort,
                      sortedDocs, docsPage>>
       /\ UNCHANGED saveVars

Prev ==
    /\ numFound > 0
    /\ ~(page <= 1 \/ loading)
    /\ gotoPage(page - 1)

NextPage ==
    /\ numFound > 0
    /\ ~(page >= totalPages \/ loading)
    /\ gotoPage(page + 1)

setQuery(v) ==
    /\ query' = v
    /\ lastOp' = NoOp
    /\ UNCHANGED <<author, page, loading, error, docs, numFound, inflight,
                   timer, sort, sortedDocs, docsPage>>
    /\ UNCHANGED saveVars

setAuthor(v) ==
    /\ author' = v
    /\ lastOp' = NoOp
    /\ UNCHANGED <<query, page, loading, error, docs, numFound, inflight,
                   timer, sort, sortedDocs, docsPage>>
    /\ UNCHANGED saveVars

QuickPick(ex) ==
    /\ query' = ex
    /\ author' = << >>
    /\ page' = 1
    /\ lastOp' = NoOp
    /\ UNCHANGED <<loading, error, docs, numFound, inflight, timer, sort,
                   sortedDocs, docsPage>>
    /\ UNCHANGED saveVars

\* inflight without its i-th request; the requests issued before it have now
\* been overtaken
Settle(i) ==
    [j \in 1..(Len(inflight) - 1) |->
        IF j < i THEN [inflight[j] EXCEPT !.overtaken = TRUE]
        ELSE inflight[j + 1]]

\* FetchOk dropping the response of a request that a later one has overtaken
FetchOkLatestOnly(i, data) ==
    LET stale == inflight[i].overtaken
        d == IF stale THEN docs ELSE data.docs
    IN /\ docs' = sortedDocsMemo(d, sort).docs
       /\ sortedDocs' = sortedDocsMemo(d, sort).arr
       /\ numFound' = (IF stale THEN numFound ELSE data.numFound)
       /\ docsPage' = (IF stale THEN docsPage ELSE inflight[i].page)
       /\ loading' = FALSE
       /\ inflight' = Settle(i)
       /\ lastOp' = [op |-> "fetchOk", req |-> inflight[i], data |-> data,
                     changed |-> (docs # data.docs \/ numFound # data.numFound)]
       /\ UNCHANGED <<query, author, page, error, timer, sort>>
       /\ UNCHANGED saveVars

\* the fetch of request i resolves with a 2xx status and the body data
FetchOk(i, data) ==
    /\ docs' = sortedDocsMemo(data.docs, sort).docs
    /\ sortedDocs' = sortedDocsMemo(data.docs, sort).arr
    /\ numFound' = data.numFound
    /\ docsPage' = inflight[i].page
    /\ loading' = FALSE
    /\ inflight' = Settle(i)
    /\ lastOp' = [op |-> "fetchOk", req |-> inflight[i], data |-> data,
                  changed |-> (docs # data.docs \/ numFound # data.numFound)]
    /\ UNCHANGED <<query, author, page, error, timer, sort>>
    /\ UNCHANGED saveVars

\* the fetch of request i rejects, answers non-2xx, or its body does not parse
FetchFail(i) ==
    /\ error' = ErrorMessage
    /\ loading' = FALSE
    /\ inflight' = Settle(i)
    /\ lastOp' = [op |-> "fetchFail", req |-> inflight[i]]
    /\ UNCHANGED <<query, author, page, docs, numFound, timer, sort,
                   sortedDocs, docsPage>>
    /\ UNCHANGED saveVars

\* the state of App after the first render and its first-load effect
Init ==
    /\ query = HarryPotter
    /\ author = << >>
    /\ sort = "relevance"
    /\ page = 1
    /\ loading = FALSE
    /\ error = ""
    /\ docs = << >>
    /\ numFound = 0
    /\ inflight = << >>
    /\ timer = TRUE
    /\ docsPage = 0
    /\ sortedDocs = << >>
    /\ saved = EmptyObject
    /\ storage = [t |-> "json", v |-> EmptyObject]
    /\ crashed = FALSE
    /\ lastWriteOk = TRUE
    /\ lastOp = NoOp

Next ==
    \/ SubmitForm
    \/ FirstLoadTimer
    \/ Prev
    \/ NextPage
    \/ \E v \in TitleInputs : setQuery(v)
    \/ \E v \in AuthorInputs : setAuthor(v)
    \/ \E ex \in QuickExamples : QuickPick(ex)
    \/ \E i \in 1..Len(inflight), data \in ApiResponses : FetchOk(i, data)
    \/ \E i \in 1..Len(inflight) : FetchFail(i)

Spec == Init /\ [][Next]_vars

-----------------------------------------------------------------------------
(* The save-set machine: App mounted over a slot, saves, removals, reloads *)

NoValue == [t |-> "num", map |-> EmptyMap]

\* an entry of D1's key written by an earlier session, with other contents
OldEntry == [SavedEntry(toBookKey(D1), D1) EXCEPT !.title = "Dune (1st ed.)"]

Json(t, m) == [t |-> "json", v |-> [t |-> t, map |-> m]]

\* what the slot can hold when the page is opened
StoredSlots ==
    { [t |-> "missing", v |-> NoValue],
      [t |-> "throws", v |-> NoValue],
      [t |-> "empty", v |-> NoValue],
      [t |-> "garbage", v |-> NoValue],
      Json("null", EmptyMap),
      Json("num", EmptyMap),
      Json("arr", "0" :> StringifyEntry(SavedEntry(toBookKey(D2), D2))),
      Json("obj", EmptyMap),
      Json("obj", toBookKey(D5) :> StringifyEntry(SavedEntry(toBookKey(D5), D5))),
      Json("obj", toBookKey(D1) :> OldEntry) }

\* the operation before the last one, without its own history
Brief(o) == IF o.op = "toggleSave"
            THEN [op |-> o.op, doc |-> o.doc, before |-> o.before]
            ELSE [op |-> o.op]

InitSave ==
    /\ query = HarryPotter
    /\ author = << >>
    /\ sort = "relevance"
    /\ page = 1
    /\ loading = FALSE
    /\ error = ""
    /\ docs = << >>
    /\ numFound = 0
    /\ inflight = << >>
    /\ timer = TRUE
    /\ docsPage = 0
    /\ sortedDocs = << >>
    /\ \E slot \in StoredSlots, ok \in BOOLEAN :
          LET m == Mount(slot, ok)
          IN /\ saved = m.saved
             /\ crashed = m.crashed
             /\ storage = m.storage
             /\ lastWriteOk = m.lastWriteOk
             /\ lastOp = [op |-> "init", slot |-> slot]

\* the Save button of a card or of the detail overlay, and the effect of
\* useLocalStorage that follows the change of saved
toggleSave(doc, ok) ==
    /\ ~crashed
    /\ saved' = toggleSaveUpdater(saved, doc)
    /\ storage' = setItem(storage, saved', ok)
    /\ lastWriteOk' = (ok /\ storage.t # "throws")
    /\ lastOp' = [op |-> "toggleSave", doc |-> doc, before |-> saved,
                  prev |-> Brief(lastOp)]
    /\ UNCHANGED <<crashed, sort, sortedDocs>>
    /\ UNCHANGED searchVars

\* the Remove button of the entry b of the Saved list
Remove(b, ok) ==
    /\ ~crashed
    /\ saved' = removeUpdater(saved, b)
    /\ storage' = setItem(storage, saved', ok)
    /\ lastWriteOk' = (ok /\ storage.t # "throws")
    /\ lastOp' = [op |-> "remove", b |-> b, before |-> saved]
    /\ UNCHANGED <<crashed, sort, sortedDocs>>
    /\ UNCHANGED searchVars

\* the page is loaded again over the slot as it stands
Reload(ok) ==
    LET m == Mount(storage, ok)
    IN /\ saved' = m.saved
       /\ crashed' = m.crashed
       /\ storage' = m.storage
       /\ lastWriteOk' = m.lastWriteOk
       /\ lastOp' = [op |-> "init", slot |-> storage]
       /\ UNCHANGED <<sort, sortedDocs>>
       /\ UNCHANGED searchVars

NextSave ==
    \/ \E d \in DocUniverse, ok \in BOOLEAN : toggleSave(d, ok)
    \/ \E b \in savedList, ok \in BOOLEAN : Remove(b, ok)
    \/ \E ok \in BOOLEAN : Reload(ok)

SpecSave == InitSave /\ [][NextSave]_vars

-----------------------------------------------------------------------------
(* Claims about the save-set, checked under SpecSave *)

Fields == {"key", "title", "author", "year", "cover", "work"}

\* e[f] as JavaScript reads it: undefined when e has no such property
PropertyOf(e, f) == IF f \in DOMAIN e THEN e[f] ELSE Undefined

SameEntry(a, b) == \A f \in Fields : PropertyOf(a, f) = PropertyOf(b, f)

\* the same keys and, for every key, the same entry contents
SameSaveSet(a, b) ==
    /\ DOMAIN a.map = DOMAIN b.map
    /\ \A k \in DOMAIN a.map : SameEntry(a.map[k], b.map[k])

TwoToggles ==
    /\ lastOp.op = "toggleSave"
    /\ lastOp.prev.op = "toggleSave"
    /\ lastOp.prev.doc = lastOp.doc

\* C4 as stated: toggleSave(d) twice in a row returns the save-set to what it
\* was, whether or not d's key was in it
C4_ToggleTwiceRestores ==
    TwoToggles => SameSaveSet(saved, lastOp.prev.before)

\* d's key is absent from S, or S holds under it the entry toggleSave builds
\* from d
FreshOrOwnEntry(S, d) ==
    LET k == toBookKey(d)
    IN \/ k \notin DOMAIN S.map
       \/ SameEntry(S.map[k], SavedEntry(k, d))

\* C4 amended: toggleSave(d) twice in a row returns the save-set to S when
\* d's key is absent from S or S holds under that key the entry built from d
C4_ToggleTwiceRestoresOwn ==
    (TwoToggles /\ FreshOrOwnEntry(lastOp.prev.before, lastOp.doc))
        => SameSaveSet(saved, lastOp.prev.before)

C4_Witness ==
    /\ TwoToggles
    /\ toBookKey(lastOp.doc) \in DOMAIN lastOp.prev.before.map
    /\ FreshOrOwnEntry(lastOp.prev.before, lastOp.doc)
    /\ Cardinality(DOMAIN saved.map) > 1
    /\ SameSaveSet(saved, lastOp.prev.before)

IsSerializedMapping(slot) == slot.t = "json" /\ slot.v.t = "obj"

\* C5: when the slot holds anything but a serialized mapping, initialization
\* yields the empty save-set, rendering does not throw and the Saved list is
\* empty
C5_BadSlotLoadsEmpty ==
    (lastOp.op = "init" /\ ~IsSerializedMapping(lastOp.slot))
        => /\ ~crashed
           /\ saved = EmptyObject
           /\ savedList = {}

\* C6: after a toggleSave or Remove whose write went through, loading the
\* page again over the slot yields a save-set with the same keys and the same
\* field values
C6_ReloadRoundTrip ==
    (lastOp.op \in {"toggleSave", "remove"} /\ lastWriteOk)
        => LET again == Mount(storage, TRUE)
           IN /\ ~again.crashed
              /\ SameSaveSet(again.saved, saved)

C6_Witness ==
    /\ lastOp.op = "remove"
    /\ lastWriteOk
    /\ saved # Mount(storage, TRUE).saved
    /\ Cardinality(DOMAIN saved.map) > 1
    /\ SameSaveSet(Mount(storage, TRUE).saved, saved)

\* the keys the last toggleSave has added to the save-set
StoredKeys == (DOMAIN saved.map) \ (DOMAIN lastOp.before.map)

\* the title, "-", and the first publish year when there is one
CompositeKey(d) ==
    TemplateTitle(d.title) \o "-"
        \o (IF d.first_publish_year = 0 THEN ""
            ELSE ToString(d.first_publish_year))

StoredUnder(k) ==
    /\ StoredKeys = {k}
    /\ saved.map[k] = SavedEntry(k, lastOp.doc)

\* C11 as stated: a toggleSave that saves stores a document without key under
\* the composite of its title and first publish year, and a document with
\* key under that key
C11_KeyOrComposite ==
    (lastOp.op = "toggleSave" /\ StoredKeys # {})
        => StoredUnder(IF lastOp.doc.key # "" THEN lastOp.doc.key
                       ELSE CompositeKey(lastOp.doc))

\* C11 amended: a document without key is stored under its
\* cover_edition_key when it has one, and under the composite only when it
\* has neither
C11_KeyEditionOrComposite ==
    (lastOp.op = "toggleSave" /\ StoredKeys # {})
        => StoredUnder(IF lastOp.doc.key # "" THEN lastOp.doc.key
                       ELSE IF lastOp.doc.cover_edition_key # ""
                            THEN lastOp.doc.cover_edition_key
                       ELSE CompositeKey(lastOp.doc))

C11_Witness ==
    /\ lastOp.op = "toggleSave"
    /\ lastOp.doc.key = ""
    /\ lastOp.doc.cover_edition_key = ""
    /\ lastOp.doc.first_publish_year = 0
    /\ StoredKeys = {CompositeKey(lastOp.doc)}
    /\ DOMAIN lastOp.before.map # {}

-----------------------------------------------------------------------------
(* The sort machine: a page of documents on display, the sort select *)

RECURSIVE SeqsUpTo(_, _)
SeqsUpTo(S, n) ==
    IF n = 0 THEN { << >> }
    ELSE LET shorter == SeqsUpTo(S, n - 1)
         IN shorter \cup { Append(q, x) : q \in shorter, x \in S }

InitSort ==
    /\ query = HarryPotter
    /\ author = << >>
    /\ sort = "relevance"
    /\ page = 1
    /\ loading = FALSE
    /\ error = ""
    /\ numFound = 0
    /\ inflight = << >>
    /\ timer = FALSE
    /\ docsPage = 0
    /\ saved = EmptyObject
    /\ storage = JSONstringify(EmptyObject)
    /\ crashed = FALSE
    /\ lastWriteOk = TRUE
    /\ \E d \in SeqsUpTo(DocUniverse, MaxDocs) :
          /\ docs = sortedDocsMemo(d, "relevance").docs
          /\ sortedDocs = sortedDocsMemo(d, "relevance").arr
          /\ lastOp = [op |-> "fetchOk", api |-> d]

\* the sort select changes and the sortedDocs memo runs again
setSort(s) ==
    /\ sort' = s
    /\ docs' = sortedDocsMemo(docs, s).docs
    /\ sortedDocs' = sortedDocsMemo(docs, s).arr
    /\ lastOp' = [op |-> "setSort", api |-> lastOp.api]
    /\ UNCHANGED <<query, author, page, loading, error, numFound, inflight,
                   timer, docsPage>>
    /\ UNCHANGED saveVars

NextSort == \E s \in SortOrders : setSort(s)

SpecSort == InitSort /\ [][NextSort]_vars

-----------------------------------------------------------------------------
(* Claims about the sort transform, checked under SpecSort *)

Count(q, x) == Cardinality({ i \in 1..Len(q) : q[i] = x })

IsPermutation(a, b) ==
    /\ Len(a) = Len(b)
    /\ \A i \in 1..Len(a) : Count(a, a[i]) = Count(b, a[i])

\* C10: sorting the sorted output again by the same order gives the same
\* sequence, the stored docs keep the order of the API, the output is a
\* permutation of the stored docs, and relevance is the identity
C10_SortIdempotentNonMutating ==
    /\ sortedDocsMemo(sortedDocs, sort).arr = sortedDocs
    /\ docs = lastOp.api
    /\ IsPermutation(sortedDocs, docs)
    /\ sort = "relevance" => sortedDocs = docs

C10_Witness ==
    /\ lastOp.op = "setSort"
    /\ sort = "year_desc"
    /\ sortedDocs # docs
    /\ \E i \in 1..(Len(sortedDocs) - 1) :
          /\ sortedDocs[i] # sortedDocs[i + 1]
          /\ sortedDocs[i].first_publish_year
                = sortedDocs[i + 1].first_publish_year
    /\ sortedDocsMemo(sortedDocs, sort).arr = sortedDocs

-----------------------------------------------------------------------------
(* Claims about search and pagination, checked under Spec *)

\* C1: in every reachable state totalPages >= 1 and the current page lies in
\* [1, totalPages], totalPages being derived from the stored numFound
C1_PageWithinTotalPages ==
    /\ totalPages >= 1
    /\ page >= 1
    /\ page <= totalPages

\* C2: when the response of a request resolves with success after the
\* response of a request issued later has resolved, docs and numFound are
\* those of the earlier request's response
C2_SlowResponseOverwrites ==
    (lastOp.op = "fetchOk" /\ lastOp.req.overtaken)
        => (docs = lastOp.data.docs /\ numFound = lastOp.data.numFound)

C2_Witness ==
    /\ lastOp.op = "fetchOk"
    /\ lastOp.req.overtaken
    /\ lastOp.changed
    /\ docs = lastOp.data.docs
    /\ numFound = lastOp.data.numFound

\* C3: the number of requests in flight is 1 when loading is true and 0 when
\* loading is false
C3_OneRequestInFlight ==
    Len(inflight) = (IF loading THEN 1 ELSE 0)

\* C7: a submit issues a request iff the trimmed title is non-empty; the
\* request then asks for page 1 with the trimmed title, limit 20 and the
\* trimmed author exactly when that is non-empty, and the page is 1; an
\* empty trimmed title issues nothing and leaves loading, error, docs and
\* numFound as they were
C7_SubmitIssuesPageOne ==
    lastOp.op = "onSubmit" =>
        LET f == lastOp.fetched
            issued == Len(inflight) - lastOp.pre.inflight
        IN /\ issued = Len(f)
           /\ (Len(f) = 1) <=> (trim(query) # << >>)
           /\ (Len(f) = 0) <=> (trim(query) = << >>)
           /\ Len(f) = 1 =>
                /\ page = 1
                /\ f[1].page = 1
                /\ inflight[Len(inflight)].page = 1
                /\ f[1].title = trim(query)
                /\ f[1].limit = 20
                /\ f[1].hasAuthor <=> (trim(author) # << >>)
                /\ f[1].hasAuthor => f[1].author = trim(author)
           /\ Len(f) = 0 =>
                /\ loading = lastOp.pre.loading
                /\ error = lastOp.pre.error
                /\ docs = lastOp.pre.docs
                /\ numFound = lastOp.pre.numFound

C7_Witness ==
    /\ lastOp.op = "onSubmit"
    /\ Len(lastOp.fetched) = 1
    /\ query # trim(query)
    /\ author # << >>
    /\ ~lastOp.fetched[1].hasAuthor
    /\ lastOp.pre.page > 1
    /\ page = 1

\* C8: totalPages = max(1, ceil(numFound / 20)), and gotoPage(p) sets the
\* page to min(max(1, p), totalPages) and issues a request for that page
C8_GotoPageClampsAndFetches ==
    /\ totalPages >= 1
    /\ totalPages * 20 >= numFound
    /\ totalPages > 1 => (totalPages - 1) * 20 < numFound
    /\ lastOp.op = "gotoPage" =>
          /\ page = Min(Max(1, lastOp.p), totalPages)
          /\ Len(lastOp.fetched) = 1
          /\ lastOp.fetched[1].page = page

\* C9: after a failed request the error message is set, loading is false,
\* docs and numFound are what they were before the request was issued, and
\* the failure itself issues no request
C9_FailureKeepsResults ==
    lastOp.op = "fetchFail" =>
        /\ error = ErrorMessage
        /\ ~loading
        /\ docs = lastOp.req.seen.docs
        /\ numFound = lastOp.req.seen.numFound

\* C12: whenever no request is in flight and the last search did not fail,
\* the current page is the page asked for by the request whose response
\* produced the docs on display
C12_PageMatchesDocs ==
    (Len(inflight) = 0 /\ error = "" /\ docsPage # 0) => page = docsPage

====
